---------------------------- MODULE Spec2Model ----------------------------
(***************************************************************************)
(* Model of the two image-processing exercises of HW2:                     *)
(*   ex1.py   : padding_img, mean_filter, median_filter, psnr              *)
(*   ex212.py : DFT_slow, DFT_2D                                           *)
(* Arrays are records [h, w, px] with px indexed by <<row, col>>, rows and *)
(* columns counted from 0 as in the source.  A call ends in a result       *)
(* record [ok, val]: ok = TRUE with the returned value, or ok = FALSE with *)
(* the name of the exception numpy raises.                                 *)
(***************************************************************************)
EXTENDS Integers, Sequences, FiniteSets, TLC

VARIABLES img, filter_size, called, ret, written,
          gt_img, smooth_img, psnr_score,
          data, DFT, gray_img, row_fft, row_col_fft, i, j, pc

vars == <<img, filter_size, called, ret, written,
          gt_img, smooth_img, psnr_score,
          data, DFT, gray_img, row_fft, row_col_fft, i, j, pc>>

filterVars == <<img, filter_size, called, ret, written>>
psnrVars == <<gt_img, smooth_img, psnr_score>>
dftVars == <<data, DFT, gray_img, row_fft, row_col_fft, i, j, pc>>

(***************************************************************************)
(* Bounds of the model.                                                    *)
(***************************************************************************)
\* an image has at most MaxCells samples (every shape h x w with h*w <= MaxCells)
MaxCells == 4
\* samples of an image are 0..MaxPix
MaxPix == 1
\* filter_size ranges over -MaxNegFilter .. MaxFilter
MaxFilter == 5
MaxNegFilter == 1
\* the two arguments of psnr have at most PsnrCells samples each
PsnrCells == 3
\* a signal, a row and a column of the transform have at most MaxLen samples
MaxLen == 4
\* a grid handed to DFT_2D has at most MaxArea samples
MaxArea == 6
\* real samples handed to the transforms are 0..MaxSample
MaxSample == 1

(***************************************************************************)
(* Arithmetic helpers.                                                     *)
(***************************************************************************)
Min(a, b) == IF a < b THEN a ELSE b
Max(a, b) == IF a > b THEN a ELSE b
Abs(a) == IF a < 0 THEN 0 - a ELSE a

RECURSIVE GCD(_, _)
GCD(a, b) == IF b = 0 THEN Abs(a) ELSE GCD(b, a % Abs(b))

RECURSIVE SumTo(_, _)
SumTo(s, n) == IF n = 0 THEN 0 ELSE s[n] + SumTo(s, n - 1)
SumSeq(s) == SumTo(s, Len(s))

SetMin(S) == CHOOSE v \in S : \A u \in S : v <= u
SetMax(S) == CHOOSE v \in S : \A u \in S : v >= u

(***************************************************************************)
(* numpy arrays: construction, slicing, broadcasting assignment.           *)
(***************************************************************************)
Cells(h, w) == (0 .. h - 1) \X (0 .. w - 1)

\* f itself (f @@ f = f), tabulated once: TLC evaluates a function constructor
\* anew at every application
Tab(f) == f @@ f

\* np.zeros((h, w)) and np.zeros_like
Zeros(h, w) == [h |-> h, w |-> w, px |-> [c \in Cells(h, w) |-> 0]]

\* range(a, b) as the sequence a, a+1, ..., b-1
PyRange(a, b) == Tab([k \in 1 .. Max(b - a, 0) |-> a + k - 1])

\* a slice bound of Python: a negative bound counts from the end, and every
\* bound is clipped to 0..n
ClipIndex(k, n) == IF k < 0 THEN Max(k + n, 0) ELSE Min(k, n)

\* [start:stop] on an axis of length n selects the indices lo .. hi-1 of the
\* pair <<lo, hi>> (none when the clipped stop is not past the clipped start)
Slice(start, stop, n) ==
  <<ClipIndex(start, n), Max(ClipIndex(stop, n), ClipIndex(start, n))>>

\* [:] on an axis of length n
Whole(n) == <<0, n>>

\* the single index k
Index(k) == <<k, k + 1>>

SliceLen(sl) == sl[2] - sl[1]

\* arr[rows, cols] for two slices
Sub(arr, rows, cols) ==
  [h |-> SliceLen(rows), w |-> SliceLen(cols),
   px |-> Tab([c \in Cells(SliceLen(rows), SliceLen(cols)) |->
                 arr.px[<<rows[1] + c[1], cols[1] + c[2]>>]])]

\* numpy's broadcasting of a source of shape (sh, sw) onto a target (th, tw)
Broadcastable(sh, sw, th, tw) == (sh = th \/ sh = 1) /\ (sw = tw \/ sw = 1)

Ok(v) == [ok |-> TRUE, val |-> v]
Raise(e) == [ok |-> FALSE, val |-> e]

\* res.val[rows, cols] = src, where res is the result so far: an earlier
\* exception is passed on, a source that cannot be broadcast raises ValueError
Assign(res, rows, cols, src) ==
  IF ~res.ok THEN res
  ELSE IF ~Broadcastable(src.h, src.w, SliceLen(rows), SliceLen(cols))
  THEN Raise("ValueError")
  ELSE LET arr == res.val
       IN Ok([h |-> arr.h, w |-> arr.w,
              px |-> Tab([c \in Cells(arr.h, arr.w) |->
                            IF /\ rows[1] <= c[1] /\ c[1] < rows[2]
                               /\ cols[1] <= c[2] /\ c[2] < cols[2]
                            THEN src.px[<<IF src.h = 1 THEN 0 ELSE c[1] - rows[1],
                                          IF src.w = 1 THEN 0 ELSE c[2] - cols[1]>>]
                            ELSE arr.px[c]])])

(***************************************************************************)
(* ex1.py: padding_img                                                     *)
(***************************************************************************)
\* padded_img = np.zeros((height + 2p, width + 2p)); padded_img[p:p+height, p:p+width] = img
PadCenter(image, padding_size) ==
  LET ph == image.h + 2 * padding_size
      pw == image.w + 2 * padding_size
  IN IF ph < 0 \/ pw < 0 THEN Raise("ValueError")
     ELSE Assign(Ok(Zeros(ph, pw)),
                 Slice(padding_size, padding_size + image.h, ph),
                 Slice(padding_size, padding_size + image.w, pw), image)

\* padded_img[:padding_size, p:p+width] = img[0, :]
PadTop(res, image, padding_size) ==
  IF ~res.ok THEN res
  ELSE Assign(res, Slice(0, padding_size, res.val.h),
              Slice(padding_size, padding_size + image.w, res.val.w),
              Sub(image, Index(0), Whole(image.w)))

\* padded_img[p+height:, p:p+width] = img[height - 1, :]
PadBottom(res, image, padding_size) ==
  IF ~res.ok THEN res
  ELSE Assign(res, Slice(padding_size + image.h, res.val.h, res.val.h),
              Slice(padding_size, padding_size + image.w, res.val.w),
              Sub(image, Index(image.h - 1), Whole(image.w)))

\* a plausible slip: the left border copied from column 0 of the padded array
PadLeftFromColumnZero(res, padding_size) ==
  IF ~res.ok THEN res
  ELSE Assign(res, Whole(res.val.h), Slice(0, padding_size, res.val.w),
              Sub(res.val, Whole(res.val.h), Slice(0, 1, res.val.w)))

\* padded_img[:, :padding_size] = padded_img[:, p:p+1]
PadLeft(res, padding_size) ==
  IF ~res.ok THEN res
  ELSE Assign(res, Whole(res.val.h), Slice(0, padding_size, res.val.w),
              Sub(res.val, Whole(res.val.h),
                  Slice(padding_size, padding_size + 1, res.val.w)))

\* a plausible slip: the right border left at the zero fill
PadRightLeftZero(res, image, padding_size) == res

\* padded_img[:, p+width:] = padded_img[:, p+width-1 : p+width]
PadRight(res, image, padding_size) ==
  IF ~res.ok THEN res
  ELSE Assign(res, Whole(res.val.h),
              Slice(padding_size + image.w, res.val.w, res.val.w),
              Sub(res.val, Whole(res.val.h),
                  Slice(padding_size + image.w - 1, padding_size + image.w, res.val.w)))

padding_img(image, fsize) ==
  LET padding_size == fsize \div 2
  IN PadRight(PadLeft(PadBottom(PadTop(PadCenter(image, padding_size),
                                       image, padding_size),
                                image, padding_size),
                      padding_size),
              image, padding_size)

(***************************************************************************)
(* ex1.py: mean_filter, median_filter                                      *)
(***************************************************************************)
\* the samples of a window, row by row
Flatten(arr) ==
  Tab([k \in 1 .. arr.h * arr.w |-> arr.px[<<(k - 1) \div arr.w, (k - 1) % arr.w>>]])

\* the samples of s in ascending order
Ascending(s) ==
  LET n == Len(s)
      place == Tab([a \in 1 .. n |->
                  Cardinality({b \in 1 .. n : s[b] < s[a] \/ (s[b] = s[a] /\ b < a)}) + 1])
  IN Tab([k \in 1 .. n |-> s[CHOOSE a \in 1 .. n : place[a] = k]])

\* A float is the fraction <<numerator, denominator>>; denominator 0 is NaN.
\* np.mean: the sum over the number of samples, NaN for an empty window
np_mean(window) ==
  LET s == Flatten(window) IN <<SumSeq(s), Len(s)>>

\* np.median: the middle sample, or the mean of the two middle samples when
\* their number is even; NaN for an empty window
np_median(window) ==
  LET s == Ascending(Flatten(window))
      n == Len(s)
  IN IF n = 0 THEN <<0, 0>>
     ELSE IF n % 2 = 1 THEN <<s[n \div 2 + 1], 1>>
     ELSE <<s[n \div 2] + s[n \div 2 + 1], 2>>

\* What storing NaN into the integer image does depends on the numpy build:
\* it raises ValueError, or the cast leaves an arbitrary sample.
NanCasts == {[raises |-> TRUE, to |-> 0]} \cup {[raises |-> FALSE, to |-> v] : v \in 0 .. MaxPix}

\* storing a non-negative float into the integer image truncates it
StoreCast(value, nanCast) == IF value[2] = 0 THEN nanCast.to ELSE value[1] \div value[2]

\* a plausible slip: the loop stops one sample short
LoopRangeShort(pad_size, extent) == PyRange(pad_size, extent - pad_size - 1)

\* range(pad_size, height - pad_size), resp. width
LoopRange(pad_size, extent) == PyRange(pad_size, extent - pad_size)

\* np.mean(neighborhood) in mean_filter, np.median(neighborhood) in median_filter
Statistic(filter, window) ==
  IF filter = "mean_filter" THEN np_mean(window) ELSE np_median(window)

\* The loops of mean_filter and median_filter, which differ in the statistic
\* only: the float computed for every sample of smoothed_img (0 where no
\* iteration stores one), and how many iterations store into each sample.
SlidingWindow(image, fsize, filter) ==
  LET padded == padding_img(image, fsize)
  IN IF ~padded.ok THEN [ok |-> FALSE, val |-> padded.val, writes |-> <<>>]
     ELSE
       LET P == padded.val
           height == P.h
           width == P.w
           pad_size == fsize \div 2
           xs == LoopRange(pad_size, height)
           ys == LoopRange(pad_size, width)
           iters == (1 .. Len(xs)) \X (1 .. Len(ys))
           \* neighborhood = padded_img[x : x + filter_size, y : y + filter_size]
           value(it) == Statistic(filter, Sub(P, Slice(xs[it[1]], xs[it[1]] + fsize, height),
                             Slice(ys[it[2]], ys[it[2]] + fsize, width)))
           \* smoothed_img[x - pad_size, y - pad_size] = value
           target(it) == <<xs[it[1]] - pad_size, ys[it[2]] - pad_size>>
           last(S) == CHOOSE it \in S : \A o \in S :
                        o[1] < it[1] \/ (o[1] = it[1] /\ o[2] <= it[2])
           cell == Tab([c \in Cells(image.h, image.w) |->
                      LET hits == {it \in iters : target(it) = c}
                      IN [n |-> Cardinality(hits),
                          v |-> IF hits = {} THEN <<0, 1>> ELSE value(last(hits))]])
       IN IF \E it \in iters : target(it) \notin Cells(image.h, image.w)
          THEN [ok |-> FALSE, val |-> "IndexError", writes |-> <<>>]
          ELSE [ok |-> TRUE,
                val |-> [h |-> image.h, w |-> image.w,
                         px |-> Tab([c \in Cells(image.h, image.w) |-> cell[c].v])],
                writes |-> Tab([c \in Cells(image.h, image.w) |-> cell[c].n])]

\* The stores of the loops into the integer image and the return: a NaN
\* raises or is cast as the build does, every other float is truncated.
Smoothed(loop, nanCast) ==
  IF ~loop.ok THEN [ok |-> FALSE, val |-> loop.val]
  ELSE IF nanCast.raises /\ \E c \in DOMAIN loop.val.px : loop.val.px[c][2] = 0
  THEN Raise("ValueError")
  ELSE Ok([h |-> loop.val.h, w |-> loop.val.w,
           px |-> Tab([c \in DOMAIN loop.val.px |-> StoreCast(loop.val.px[c], nanCast)])])

(***************************************************************************)
(* The calls of ex1.py's padding and filters.                              *)
(***************************************************************************)
Shapes(cells) == {s \in (1 .. cells) \X (1 .. cells) : s[1] * s[2] <= cells}

Images(cells, top) ==
  UNION {{[h |-> s[1], w |-> s[2], px |-> f] : f \in [Cells(s[1], s[2]) -> 0 .. top]} :
         s \in Shapes(cells)}

FilterSizes == (0 - MaxNegFilter) .. MaxFilter

NoArray == [h |-> 0, w |-> 0, px |-> <<>>]
NoResult == [ok |-> FALSE, val |-> "not called"]

InitFilter ==
  /\ img \in Images(MaxCells, MaxPix)
  /\ filter_size \in FilterSizes
  /\ called = "none"
  /\ ret = NoResult
  /\ written = <<>>
  /\ gt_img = NoArray /\ smooth_img = NoArray /\ psnr_score = NoResult
  /\ data = <<>> /\ DFT = <<>> /\ gray_img = NoArray
  /\ row_fft = NoArray /\ row_col_fft = NoArray /\ i = 0 /\ j = 0 /\ pc = "idle"

CallPaddingImg ==
  /\ called = "none"
  /\ called' = "padding_img"
  /\ ret' = padding_img(img, filter_size)
  /\ UNCHANGED <<img, filter_size, written>>
  /\ UNCHANGED psnrVars /\ UNCHANGED dftVars

CallMeanFilter ==
  /\ called = "none"
  /\ LET loop == SlidingWindow(img, filter_size, "mean_filter")
     IN /\ \E nanCast \in NanCasts : ret' = Smoothed(loop, nanCast)
        /\ written' = loop.writes
  /\ called' = "mean_filter"
  /\ UNCHANGED <<img, filter_size>>
  /\ UNCHANGED psnrVars /\ UNCHANGED dftVars

CallMedianFilter ==
  /\ called = "none"
  /\ LET loop == SlidingWindow(img, filter_size, "median_filter")
     IN /\ \E nanCast \in NanCasts : ret' = Smoothed(loop, nanCast)
        /\ written' = loop.writes
  /\ called' = "median_filter"
  /\ UNCHANGED <<img, filter_size>>
  /\ UNCHANGED psnrVars /\ UNCHANGED dftVars

NextFilter == CallPaddingImg \/ CallMeanFilter \/ CallMedianFilter

SpecFilter == InitFilter /\ [][NextFilter]_vars

(***************************************************************************)
(* ex1.py: psnr                                                            *)
(***************************************************************************)
\* The shape of a - b, or <<0, 0>> when the operands cannot be broadcast
BroadcastShape(a, b) ==
  IF /\ (a.h = b.h \/ a.h = 1 \/ b.h = 1)
     /\ (a.w = b.w \/ a.w = 1 \/ b.w = 1)
  THEN <<Max(a.h, b.h), Max(a.w, b.w)>>
  ELSE <<0, 0>>

\* a sample of an operand broadcast to a larger shape
BroadcastAt(a, c) == a.px[<<IF a.h = 1 THEN 0 ELSE c[1], IF a.w = 1 THEN 0 ELSE c[2]>>]

\* A score is a float in decibels: "finite" stands for 10 * log10(arg[1] / arg[2]),
\* the other kinds are the IEEE specials "-inf", "+inf" and "nan".
Decibel(num, den) ==
  IF num = 0 THEN [kind |-> "-inf", arg |-> <<0, 1>>]
  ELSE [kind |-> "finite", arg |-> <<num \div GCD(num, den), den \div GCD(num, den)>>]

\* 20 * np.log10(max_pixel) = 10 * log10(max_pixel ^ 2); log10(0) is -inf
TwentyLog10(max_pixel) == Decibel(max_pixel * max_pixel, 1)

\* a plausible slip: the error kept away from zero before the logarithm
TenLog10Floored(mse) == Decibel(IF mse[1] = 0 THEN 1 ELSE mse[1], mse[2])

\* 10 * np.log10(mse) for the fraction mse
TenLog10(mse) == Decibel(mse[1], mse[2])

\* a - b on floats
FloatMinus(a, b) ==
  IF a.kind = "finite" /\ b.kind = "finite"
  THEN Decibel(a.arg[1] * b.arg[2], a.arg[2] * b.arg[1])
  ELSE IF a.kind = "finite" /\ b.kind = "-inf" THEN [kind |-> "+inf", arg |-> <<0, 1>>]
  ELSE IF a.kind = "-inf" /\ b.kind = "finite" THEN [kind |-> "-inf", arg |-> <<0, 1>>]
  ELSE [kind |-> "nan", arg |-> <<0, 1>>]

psnr(gt, smooth) ==
  LET shape == BroadcastShape(gt, smooth)
  IN IF shape = <<0, 0>> THEN Raise("ValueError")
     ELSE
       LET cells == Cells(shape[1], shape[2])
           \* np.square(gt_img - smooth_img), row by row
           squares == Tab([k \in 1 .. shape[1] * shape[2] |->
                        LET c == <<(k - 1) \div shape[2], (k - 1) % shape[2]>>
                            d == BroadcastAt(gt, c) - BroadcastAt(smooth, c)
                        IN d * d])
           mse == <<SumSeq(squares), Len(squares)>>
           max_pixel == SetMax({gt.px[c] : c \in Cells(gt.h, gt.w)})
       IN Ok(FloatMinus(TwentyLog10(max_pixel), TenLog10(mse)))

InitPSNR ==
  /\ gt_img \in Images(PsnrCells, MaxPix)
  /\ smooth_img \in Images(PsnrCells, MaxPix)
  /\ psnr_score = NoResult
  /\ called = "none"
  /\ img = NoArray /\ filter_size = 0 /\ ret = NoResult /\ written = <<>>
  /\ data = <<>> /\ DFT = <<>> /\ gray_img = NoArray
  /\ row_fft = NoArray /\ row_col_fft = NoArray /\ i = 0 /\ j = 0 /\ pc = "idle"

CallPsnr ==
  /\ called = "none"
  /\ called' = "psnr"
  /\ psnr_score' = psnr(gt_img, smooth_img)
  /\ UNCHANGED <<gt_img, smooth_img, img, filter_size, ret, written>>
  /\ UNCHANGED dftVars

NextPSNR == CallPsnr

SpecPSNR == InitPSNR /\ [][NextPSNR]_vars

(***************************************************************************)
(* ex212.py: complex numbers.                                              *)
(* Every twiddle factor exp(-2j*pi*k*n/N) is a power of a root of unity.   *)
(* A complex number is held exactly, as                                    *)
(*     (sum over e in 0..ord-1 of num[e] * zeta^e) / den,                  *)
(* zeta = exp(-2j*pi/ord); the rounding of complex128 is not modelled.     *)
(* Canon picks one record for each number of a given ord, so that two      *)
(* numbers of the same ord are equal exactly when their records are.       *)
(***************************************************************************)
Lcm(a, b) == (a * b) \div GCD(a, b)

RECURSIVE SetLcm(_)
SetLcm(S) ==
  IF S = {} THEN 1
  ELSE LET x == CHOOSE x \in S : TRUE IN Lcm(x, SetLcm(S \ {x}))

RECURSIVE SetGcd(_)
SetGcd(S) ==
  IF S = {} THEN 0
  ELSE LET x == CHOOSE x \in S : TRUE IN GCD(x, SetGcd(S \ {x}))

PrimeDivisors(m) == {q \in 2 .. m : m % q = 0 /\ \A d \in 2 .. q - 1 : q % d # 0}

\* the same number over the least denominator
Reduce(a) ==
  LET g == GCD(a.den, SetGcd({a.num[e] : e \in 0 .. a.ord - 1}))
  IN [ord |-> a.ord, num |-> Tab([e \in 0 .. a.ord - 1 |-> a.num[e] \div g]),
      den |-> a.den \div g]

\* the same number written with the root of unity of order m, a multiple of a.ord
Lift(a, m) ==
  LET step == m \div a.ord
  IN [ord |-> m,
      num |-> Tab([x \in 0 .. m - 1 |-> IF x % step = 0 THEN a.num[x \div step] ELSE 0]),
      den |-> a.den]

\* a * zeta^e
CxRotate(a, e) ==
  [ord |-> a.ord, num |-> Tab([x \in 0 .. a.ord - 1 |-> a.num[(x - e) % a.ord]]),
   den |-> a.den]

\* The sum of the q-th roots of unity is 0 for a prime q, so subtracting
\* a * (1 + zeta^(ord/q) + ... + zeta^((q-1)ord/q)) / q from a leaves the number
\* unchanged; done for every prime divisor of ord it yields the canonical record.
RECURSIVE RootSum(_, _, _)
RootSum(a, q, t) ==
  IF t = 0 THEN a.num
  ELSE LET rest == RootSum(a, q, t - 1)
       IN Tab([x \in 0 .. a.ord - 1 |->
                 rest[x] + a.num[(x - t * (a.ord \div q)) % a.ord]])

Project(a, q) ==
  LET sum == RootSum(a, q, q - 1)
  IN [ord |-> a.ord, num |-> Tab([x \in 0 .. a.ord - 1 |-> q * a.num[x] - sum[x]]),
      den |-> a.den * q]

RECURSIVE CanonOver(_, _)
CanonOver(a, primes) ==
  IF primes = {} THEN Reduce(a)
  ELSE LET q == CHOOSE q \in primes : TRUE
       IN CanonOver(Project(a, q), primes \ {q})

Canon(a) == CanonOver(a, PrimeDivisors(a.ord))

\* the rational r / d as a complex number
CxFrac(r, d) == Reduce([ord |-> 1, num |-> Tab([e \in {0} |-> r]), den |-> d])

\* an element of np.zeros(..., dtype=np.complex_)
CxZero == CxFrac(0, 1)

\* a real array promoted to complex
ToComplex(seq) == Tab([k \in 1 .. Len(seq) |-> CxFrac(seq[k], 1)])

\* a + b for two numbers of the same ord, over the least common denominator
CxAdd(a, b) ==
  LET d == Lcm(a.den, b.den)
  IN [ord |-> a.ord,
      num |-> Tab([e \in 0 .. a.ord - 1 |->
                     a.num[e] * (d \div a.den) + b.num[e] * (d \div b.den)]),
      den |-> d]

\* 1 / N * a
CxOverN(a, N) == [ord |-> a.ord, num |-> a.num, den |-> a.den * N]

\* a * np.exp(-2j * np.pi * k * n / N), for N a divisor of a.ord
CxTimesTwiddle(a, k, n, N) == CxRotate(a, (k * n * (a.ord \div N)) % a.ord)

(***************************************************************************)
(* ex212.py: DFT_slow                                                      *)
(***************************************************************************)
\* the order of the root of unity in which DFT_slow(seq) is computed: every
\* sample and every twiddle factor is a combination of its powers
WorkingOrder(seq) == Lcm(Len(seq), SetLcm({seq[n].ord : n \in 1 .. Len(seq)}))

\* a plausible slip: the 1 / N factor left out
RECURSIVE AccumulateUnnormalised(_, _, _)
AccumulateUnnormalised(seq, k, n) ==
  IF n = 0 THEN Lift(CxZero, WorkingOrder(seq))
  ELSE CxAdd(AccumulateUnnormalised(seq, k, n - 1),
             CxTimesTwiddle(Lift(seq[n], WorkingOrder(seq)), k, n - 1, Len(seq)))

\* DFT[k] after the first n iterations of the inner loop:
\* DFT[k] += 1 / N * data[n] * np.exp(-2j * np.pi * k * n / N)
RECURSIVE Accumulate(_, _, _)
Accumulate(seq, k, n) ==
  IF n = 0 THEN Lift(CxZero, WorkingOrder(seq))
  ELSE CxAdd(Accumulate(seq, k, n - 1),
             CxTimesTwiddle(CxOverN(Lift(seq[n], WorkingOrder(seq)), Len(seq)),
                            k, n - 1, Len(seq)))

\* seq holds data[0], ..., data[N-1] at 1, ..., N, and so does the result
DFT_slow(seq) ==
  LET N == Len(seq)
  IN Tab([k \in 1 .. N |-> Canon(Accumulate(seq, k - 1, N))])

(***************************************************************************)
(* ex212.py: DFT_2D                                                        *)
(***************************************************************************)
\* arr[r, :] and arr[:, c] as sequences
RowOf(arr, r) == Tab([k \in 1 .. arr.w |-> arr.px[<<r, k - 1>>]])
ColOf(arr, c) == Tab([k \in 1 .. arr.h |-> arr.px[<<k - 1, c>>]])

\* a 1-D array laid out as the row, resp. the column, it is stored into
AsRow(seq) == [h |-> 1, w |-> Len(seq), px |-> Tab([c \in Cells(1, Len(seq)) |-> seq[c[2] + 1]])]
AsCol(seq) == [h |-> Len(seq), w |-> 1, px |-> Tab([c \in Cells(Len(seq), 1) |-> seq[c[1] + 1]])]

\* np.zeros_like(gray_img, dtype=np.complex_)
ComplexZerosLike(arr) == [h |-> arr.h, w |-> arr.w, px |-> Tab([c \in Cells(arr.h, arr.w) |-> CxZero])]

\* a plausible slip: the row stored without being transformed
RowPassCopies(gray, r) == ToComplex(RowOf(gray, r))

\* DFT_slow(gray_img[i, :])
RowPassValue(gray, r) == DFT_slow(ToComplex(RowOf(gray, r)))

\* a plausible slip: the column pass reads the image instead of row_fft
ColPassReadsImage(gray, rowfft, c) == DFT_slow(ToComplex(ColOf(gray, c)))

\* DFT_slow(row_fft[:, j])
ColPassValue(gray, rowfft, c) == DFT_slow(ColOf(rowfft, c))

Signals == UNION {[1 .. n -> 0 .. MaxSample] : n \in 1 .. MaxLen}

Grids ==
  UNION {{[h |-> s[1], w |-> s[2], px |-> f] : f \in [Cells(s[1], s[2]) -> 0 .. MaxSample]} :
         s \in {t \in (1 .. MaxLen) \X (1 .. MaxLen) : t[1] * t[2] <= MaxArea}}

InitDFT ==
  /\ \/ /\ data \in Signals
        /\ gray_img = NoArray
        /\ pc = "DFT_slow"
     \/ /\ gray_img \in Grids
        /\ data = <<>>
        /\ pc = "DFT_2D"
  /\ DFT = <<>>
  /\ row_fft = NoArray /\ row_col_fft = NoArray /\ i = 0 /\ j = 0
  /\ img = NoArray /\ filter_size = 0 /\ called = "none" /\ ret = NoResult
  /\ written = <<>>
  /\ gt_img = NoArray /\ smooth_img = NoArray /\ psnr_score = NoResult

\* DFT_slow(data) on a real signal
CallDFTSlow ==
  /\ pc = "DFT_slow"
  /\ DFT' = DFT_slow(ToComplex(data))
  /\ pc' = "returned"
  /\ UNCHANGED <<data, gray_img, row_fft, row_col_fft, i, j>>
  /\ UNCHANGED filterVars /\ UNCHANGED psnrVars

\* row_fft = np.zeros_like(gray_img, dtype=np.complex_)
EnterDFT2D ==
  /\ pc = "DFT_2D"
  /\ row_fft' = ComplexZerosLike(gray_img)
  /\ i' = 0
  /\ pc' = "rows"
  /\ UNCHANGED <<data, DFT, gray_img, row_col_fft, j>>
  /\ UNCHANGED filterVars /\ UNCHANGED psnrVars

\* row_fft[i, :] = DFT_slow(gray_img[i, :])
RowPass ==
  /\ pc = "rows" /\ i < gray_img.h
  /\ row_fft' = Assign(Ok(row_fft), Index(i), Whole(row_fft.w),
                       AsRow(RowPassValue(gray_img, i))).val
  /\ i' = i + 1
  /\ UNCHANGED <<data, DFT, gray_img, row_col_fft, j, pc>>
  /\ UNCHANGED filterVars /\ UNCHANGED psnrVars

\* the row loop is over: row_col_fft = np.zeros_like(gray_img, dtype=np.complex_)
EnterColumns ==
  /\ pc = "rows" /\ i = gray_img.h
  /\ row_col_fft' = ComplexZerosLike(gray_img)
  /\ j' = 0
  /\ pc' = "cols"
  /\ UNCHANGED <<data, DFT, gray_img, row_fft, i>>
  /\ UNCHANGED filterVars /\ UNCHANGED psnrVars

\* row_col_fft[:, j] = DFT_slow(row_fft[:, j])
ColPass ==
  /\ pc = "cols" /\ j < gray_img.w
  /\ row_col_fft' = Assign(Ok(row_col_fft), Whole(row_col_fft.h), Index(j),
                           AsCol(ColPassValue(gray_img, row_fft, j))).val
  /\ j' = j + 1
  /\ UNCHANGED <<data, DFT, gray_img, row_fft, i, pc>>
  /\ UNCHANGED filterVars /\ UNCHANGED psnrVars

\* return row_fft, row_col_fft
ReturnDFT2D ==
  /\ pc = "cols" /\ j = gray_img.w
  /\ pc' = "returned2"
  /\ UNCHANGED <<data, DFT, gray_img, row_fft, row_col_fft, i, j>>
  /\ UNCHANGED filterVars /\ UNCHANGED psnrVars

NextDFT == CallDFTSlow \/ EnterDFT2D \/ RowPass \/ EnterColumns \/ ColPass \/ ReturnDFT2D

SpecDFT == InitDFT /\ [][NextDFT]_vars

(***************************************************************************)
(* Properties of the padding and of the filters.                           *)
(***************************************************************************)
Clamp(v, lo, hi) == IF v < lo THEN lo ELSE IF v > hi THEN hi ELSE v

IsFilterCall == called \in {"mean_filter", "median_filter"}
OddFilterSize == filter_size >= 1 /\ filter_size % 2 = 1
Samples(image) == {image.px[c] : c \in Cells(image.h, image.w)}

\* the filter_size x filter_size neighbourhood centred at sample c of the
\* replicate-padded image
CentredNeighbourhood(image, fsize, c) ==
  LET p == fsize \div 2
  IN [h |-> fsize, w |-> fsize,
      px |-> Tab([d \in Cells(fsize, fsize) |->
                    image.px[<<Clamp(c[1] + d[1] - p, 0, image.h - 1),
                              Clamp(c[2] + d[2] - p, 0, image.w - 1)>>]])]

\* C1: for odd filter_size >= 1, mean_filter and median_filter return a grid of
\* the input's shape whose sample (x, y) is the mean (stored as an integer) resp.
\* the median of the full filter_size x filter_size neighbourhood centred at
\* (x, y) of the replicate-padded input.
FilterUsesCentredNeighbourhood ==
  (IsFilterCall /\ OddFilterSize) =>
    /\ ret.ok
    /\ ret.val.h = img.h /\ ret.val.w = img.w
    /\ \A c \in Cells(img.h, img.w) :
         LET nb == CentredNeighbourhood(img, filter_size, c)
             stat == Statistic(called, nb)
         IN ret.val.px[c] = stat[1] \div stat[2]

\* C2: for odd filter_size >= 1, padding_img returns a grid of shape
\* (H + 2p, W + 2p) with padded[a, b] = img[clamp(a - p, 0, H - 1), clamp(b - p, 0, W - 1)]
\* for every element: centre, borders and corners, also when p >= H or p >= W.
PaddingReplicatesNearestSample ==
  (called = "padding_img" /\ OddFilterSize) =>
    LET p == filter_size \div 2
    IN /\ ret.ok
       /\ ret.val.h = img.h + 2 * p /\ ret.val.w = img.w + 2 * p
       /\ \A c \in Cells(img.h + 2 * p, img.w + 2 * p) :
            ret.val.px[c] = img.px[<<Clamp(c[1] - p, 0, img.h - 1),
                                     Clamp(c[2] - p, 0, img.w - 1)>>]

\* a padding with p >= H of an image whose two samples differ
PaddingWiderThanImage ==
  /\ called = "padding_img" /\ filter_size = 3
  /\ img.h = 1 /\ img.w = 2 /\ img.px[<<0, 0>>] # img.px[<<0, 1>>]
  /\ ret.ok /\ ret.val.h = 3 /\ ret.val.w = 4
  /\ ret.val.px[<<2, 3>>] = img.px[<<0, 1>>]

\* C3: on a grid whose samples all equal one constant, mean_filter and
\* median_filter with any filter size (odd or even, at least 1) return that
\* same grid.
ConstantImageIsFixedPoint ==
  (IsFilterCall /\ filter_size >= 1 /\ Cardinality(Samples(img)) = 1) =>
    ret.ok /\ ret.val = img

\* a mean filter of size 3 on a 2 x 2 image of a non-zero constant
ConstantImageFiltered ==
  /\ called = "mean_filter" /\ filter_size = 3
  /\ img.h = 2 /\ img.w = 2 /\ Samples(img) = {1}
  /\ ret.ok /\ Samples(ret.val) = {1}

\* C4: a call with an even filter_size or with filter_size <= 0 ends in an
\* error and never returns a padded or smoothed grid.
InvalidFilterSizeRejected ==
  (called # "none" /\ (filter_size <= 0 \/ filter_size % 2 = 0)) => ~ret.ok

\* C10: for odd filter_size >= 1 every output sample of the two filters is
\* written exactly once and lies between the least and the greatest sample of
\* the input.
FilterOutputWithinInputRange ==
  (IsFilterCall /\ OddFilterSize) =>
    /\ ret.ok
    /\ ret.val.h = img.h /\ ret.val.w = img.w
    /\ \A c \in Cells(img.h, img.w) :
         /\ written[c] = 1
         /\ SetMin(Samples(img)) <= ret.val.px[c]
         /\ ret.val.px[c] <= SetMax(Samples(img))

\* a median filter of size 3 on a 2 x 2 image without a zero sample: every
\* sample was written, none is the zero fill
NonZeroImageFiltered ==
  /\ called = "median_filter" /\ filter_size = 3
  /\ img.h = 2 /\ img.w = 2 /\ 0 \notin Samples(img)
  /\ ret.ok /\ 0 \notin Samples(ret.val)
  /\ \A c \in Cells(2, 2) : written[c] = 1

(***************************************************************************)
(* Properties of psnr.                                                     *)
(***************************************************************************)
\* C5: psnr on two grids of different shapes fails with an error; it never
\* returns a score computed by broadcasting one grid against the other.
ShapeMismatchFailsFast ==
  (called = "psnr" /\ <<gt_img.h, gt_img.w>> # <<smooth_img.h, smooth_img.w>>) =>
    ~psnr_score.ok

\* C6: for every non-empty grid G, psnr(G, G) is +infinity, never NaN, never
\* -infinity and never a finite number.
IdenticalImagesScoreInfinity ==
  (called = "psnr" /\ gt_img = smooth_img) =>
    psnr_score.ok /\ psnr_score.val.kind = "+inf"

\* C6, amended: psnr(G, G) is +infinity for every non-empty grid G with a
\* non-zero sample, and NaN for the all-zero grid.
IdenticalImagesScoreInfinityUnlessBlack ==
  (called = "psnr" /\ gt_img = smooth_img) =>
    /\ psnr_score.ok
    /\ psnr_score.val.kind = IF SetMax(Samples(gt_img)) > 0 THEN "+inf" ELSE "nan"

\* psnr of a 1 x 2 image with samples 0 and 1 against itself
IdenticalImagesScored ==
  /\ called = "psnr" /\ gt_img = smooth_img
  /\ gt_img.h = 1 /\ gt_img.w = 2 /\ Samples(gt_img) = {0, 1}
  /\ psnr_score.ok /\ psnr_score.val.kind = "+inf"

(***************************************************************************)
(* Properties of the transforms.                                           *)
(***************************************************************************)
\* the transform of every column of the image, then of every row of that
ColumnsThenRows(gray) ==
  LET cols == Tab([c \in 0 .. gray.w - 1 |-> DFT_slow(ToComplex(ColOf(gray, c)))])
      colfft == [h |-> gray.h, w |-> gray.w,
                 px |-> Tab([c \in Cells(gray.h, gray.w) |-> cols[c[2]][c[1] + 1]])]
      rows == Tab([r \in 0 .. gray.h - 1 |-> DFT_slow(RowOf(colfft, r))])
  IN [h |-> gray.h, w |-> gray.w,
      px |-> Tab([c \in Cells(gray.h, gray.w) |-> rows[c[1]][c[2] + 1]])]

\* C7: the full spectrum returned by DFT_2D (rows, then columns) equals the grid
\* obtained by transforming every column first and then every row.
TransformIsSeparable ==
  pc = "returned2" => row_col_fft = ColumnsThenRows(gray_img)

\* DFT_2D has returned the spectrum of a 2 x 3 image with an impulse at one corner
SeparableOnRectangle ==
  /\ pc = "returned2" /\ gray_img.h = 2 /\ gray_img.w = 3
  /\ gray_img.px[<<0, 0>>] = 1 /\ gray_img.px[<<1, 2>>] = 0 /\ gray_img.px[<<0, 1>>] = 0
  /\ row_col_fft = ColumnsThenRows(gray_img)
  /\ row_col_fft # row_fft

\* the real number 1/N, as an element of a transform of length N
OneOver(N) == Canon(Lift(CxFrac(1, N), N))

IsImpulse(seq) == seq[1] = 1 /\ \A n \in 2 .. Len(seq) : seq[n] = 0

TwoPassStructure ==
  /\ pc = "cols" => i = gray_img.h
  /\ pc \in {"cols", "returned2"} =>
       /\ row_fft.h = gray_img.h /\ row_fft.w = gray_img.w
       /\ \A r \in 0 .. gray_img.h - 1 :
            RowOf(row_fft, r) = DFT_slow(ToComplex(RowOf(gray_img, r)))
  /\ pc = "returned2" =>
       /\ row_col_fft.h = gray_img.h /\ row_col_fft.w = gray_img.w
       /\ \A c \in 0 .. gray_img.w - 1 :
            ColOf(row_col_fft, c) = DFT_slow(ColOf(row_fft, c))

\* DFT_2D has returned both spectra of a 3 x 2 image that is not constant
BothSpectraReturned ==
  /\ pc = "returned2" /\ gray_img.h = 3 /\ gray_img.w = 2
  /\ gray_img.px[<<0, 0>>] # gray_img.px[<<2, 1>>]
  /\ i = 3 /\ j = 2
  /\ row_fft.h = 3 /\ row_col_fft.w = 2
  /\ row_fft # row_col_fft

=============================================================================
